---- MODULE Spec2Model ----
(***************************************************************************)
(* A model of the toxiproxy_rust client: the Proxy handle of src/proxy.rs  *)
(* (enable, disable, delete, toxics, the toxic builders, with_down, apply, *)
(* delete_all_toxics), the ToxicPack of src/toxic.rs, the closures of the  *)
(* integration tests, the mutex around the shared HttpClient, and the      *)
(* Toxiproxy server the requests are sent to.                              *)
(*                                                                         *)
(* Option<T> is a sequence of length 0 (None) or 1 (Some).  A request path *)
(* "a/b/c" is the sequence of its segments <<"a", "b", "c">>.  A toxicity  *)
(* (f32 in [0, 1]) is kept in percent.                                     *)
(***************************************************************************)
EXTENDS Integers, Sequences, FiniteSets, TLC

VARIABLES
    server,   \* the Toxiproxy server: proxy name -> [exists, enabled, toxics]
    mutex,    \* the Mutex<HttpClient>: [holder, poisoned]
    th,       \* per client thread: position, frames, request, locals, results
    proxy,    \* per client thread: Option of the ProxyPack its handle owns
    inputs,   \* the ToxicPacks the builder calls of this run are drawn from
    clients,  \* the threads that run in this run
    budget    \* per client thread: Option of the number of calls left to it

vars == <<server, mutex, th, proxy, inputs, clients, budget>>

\* ---------------------------------------------------------------- bounds

\* A builder is called only while the proxy holds fewer toxics than this.
MaxToxics == 2

\* The calls each thread makes when threads run side by side.
MaxCalls == 1

\* The ToxicPacks constructed side by side when the builders are compared.
MaxPacks == 2

\* ------------------------------------------------------------ value types

None == <<>>
Some(x) == <<x>>

Threads == {1, 2}
Names == {"socket", "other"}

Listen(n) == IF n = "socket" THEN "localhost:2001" ELSE "localhost:3001"
Upstream(n) == IF n = "socket" THEN "localhost:2000" ELSE "localhost:3000"

TOXIC_CONDITION_MATCHER_TYPE == "httpRequestHeaderMatcher"

\* ToxicCondition::new_http_request_header_matcher
new_http_request_header_matcher(header_key, header_value_regex) ==
    [matcher_type |-> TOXIC_CONDITION_MATCHER_TYPE,
     matcher_parameters |->
        [headerKey |-> header_key, headerValueRegex |-> header_value_regex]]

\* A ToxicPack named after its type alone.
new_named_by_type(type, stream, toxicity, attributes, condition) ==
    [name |-> type,
     type |-> type,
     stream |-> stream,
     toxicity |-> toxicity,
     attributes |-> attributes,
     condition |-> condition]

\* ToxicPack::new_with_condition: the name is "{type}_{stream}".
new_with_condition(type, stream, toxicity, attributes, condition) ==
    [name |-> type \o "_" \o stream,
     type |-> type,
     stream |-> stream,
     toxicity |-> toxicity,
     attributes |-> attributes,
     condition |-> condition]

\* ToxicPack::new
new(type, stream, toxicity, attributes) ==
    new_with_condition(type, stream, toxicity, attributes, None)

\* ProxyPack::new
ProxyPack_new(name, listen, upstream) ==
    [name |-> name, listen |-> listen, upstream |-> upstream,
     enabled |-> TRUE, toxics |-> <<>>]

\* ------------------------------------------------------------ wire shapes

\* #[derive(Serialize)] of ToxicCondition, #[serde(rename_all = "camelCase")]
ConditionToJson(c) ==
    [matcherType |-> c.matcher_type, matcherParameters |-> c.matcher_parameters]

\* #[derive(Deserialize)] of ToxicCondition
ConditionFromJson(j) ==
    [matcher_type |-> j.matcherType, matcher_parameters |-> j.matcherParameters]

\* A ToxicPack serialized without its condition.
ToxicToJson_skips_condition(x) ==
    [name |-> x.name, type |-> x.type, stream |-> x.stream,
     toxicity |-> x.toxicity, attributes |-> x.attributes,
     condition |-> None]

\* #[derive(Serialize)] of ToxicPack: serde_json::to_string(&toxic)
ToxicToJson(x) ==
    [name |-> x.name, type |-> x.type, stream |-> x.stream,
     toxicity |-> x.toxicity, attributes |-> x.attributes,
     condition |-> IF x.condition = None THEN None
                   ELSE Some(ConditionToJson(x.condition[1]))]

\* #[derive(Deserialize)] of ToxicPack: response.json()
ToxicFromJson(j) ==
    [name |-> j.name, type |-> j.type, stream |-> j.stream,
     toxicity |-> j.toxicity, attributes |-> j.attributes,
     condition |-> IF j.condition = None THEN None
                   ELSE Some(ConditionFromJson(j.condition[1]))]

ToxicsFromJson(js) == [i \in 1..Len(js) |-> ToxicFromJson(js[i])]

\* A ProxyPack read under one fixed name, not the name of the reply.
ProxyFromJson_fixed_name(j) ==
    [name |-> "socket", listen |-> j.listen, upstream |-> j.upstream,
     enabled |-> j.enabled, toxics |-> ToxicsFromJson(j.toxics)]

\* #[derive(Deserialize)] of ProxyPack
ProxyFromJson(j) ==
    [name |-> j.name, listen |-> j.listen, upstream |-> j.upstream,
     enabled |-> j.enabled, toxics |-> ToxicsFromJson(j.toxics)]

\* #[derive(Serialize)] of ProxyPack
ProxyToJson(p) ==
    [name |-> p.name, listen |-> p.listen, upstream |-> p.upstream,
     enabled |-> p.enabled,
     toxics |-> [i \in 1..Len(p.toxics) |-> ToxicToJson(p.toxics[i])]]

\* ------------------------------------------------------------ the server
\* The Toxiproxy server is a separate process; its answers are those of the
\* endpoint table of the specification.

Absent == [exists |-> FALSE, enabled |-> FALSE, toxics |-> <<>>]

Existing(srv) == {n \in Names : srv[n].exists}

ProxyJson(srv, n) ==
    [name |-> n, listen |-> Listen(n), upstream |-> Upstream(n),
     enabled |-> srv[n].enabled, toxics |-> srv[n].toxics]

ToxicIndex(list, toxicName) ==
    {i \in 1..Len(list) : list[i].name = toxicName}

RemoveAt(list, k) ==
    [i \in 1..(Len(list) - 1) |-> IF i < k THEN list[i] ELSE list[i + 1]]

Reply(ok, val, srv) == [ok |-> ok, val |-> val, srv |-> srv]

NotFound(srv) == Reply(FALSE, None, srv)

\* POST proxies: a proxy that exists with the same listen and upstream is
\* kept as it is; a new one is created enabled and without toxics.
ServePopulate(srv, cfgs) ==
    LET named == {cfgs[i].name : i \in 1..Len(cfgs)}
        srv2 == [n \in Names |->
                    IF n \in named /\ ~srv[n].exists
                    THEN [exists |-> TRUE, enabled |-> TRUE, toxics |-> <<>>]
                    ELSE srv[n]]
    IN Reply(TRUE,
             Some([i \in 1..Len(cfgs) |-> ProxyJson(srv2, cfgs[i].name)]),
             srv2)

ServeProxy(srv, verb, n, body) ==
    IF ~srv[n].exists THEN NotFound(srv)
    ELSE CASE verb = "GET" -> Reply(TRUE, Some(ProxyJson(srv, n)), srv)
           [] verb = "POST" ->
                LET srv2 == [srv EXCEPT ![n].enabled = body[1].enabled]
                IN Reply(TRUE, Some(ProxyJson(srv2, n)), srv2)
           [] verb = "DELETE" -> Reply(TRUE, None, [srv EXCEPT ![n] = Absent])
           [] OTHER -> NotFound(srv)

ServeToxics(srv, verb, n, body) ==
    IF ~srv[n].exists THEN NotFound(srv)
    ELSE CASE verb = "GET" -> Reply(TRUE, Some(srv[n].toxics), srv)
           [] verb = "POST" ->
                IF ToxicIndex(srv[n].toxics, body[1].name) # {}
                THEN Reply(FALSE, None, srv)
                ELSE Reply(TRUE, Some(body[1]),
                           [srv EXCEPT ![n].toxics = Append(@, body[1])])
           [] OTHER -> NotFound(srv)

ServeToxic(srv, verb, n, toxicName) ==
    IF ~srv[n].exists \/ verb # "DELETE" THEN NotFound(srv)
    ELSE LET at == ToxicIndex(srv[n].toxics, toxicName)
         IN IF at = {} THEN NotFound(srv)
            ELSE Reply(TRUE, None,
                       [srv EXCEPT ![n].toxics =
                            RemoveAt(@, CHOOSE k \in at : TRUE)])

\* The endpoint table: the answer of the server to one request.
Serve(srv, rq) ==
    LET p == rq.path
    IN CASE Len(p) = 1 /\ p[1] = "proxies" /\ rq.verb = "GET" ->
              Reply(TRUE,
                    Some([n \in Existing(srv) |-> ProxyJson(srv, n)]), srv)
         [] Len(p) = 1 /\ p[1] = "proxies" /\ rq.verb = "POST" ->
              ServePopulate(srv, rq.body[1])
         [] Len(p) = 2 /\ p[1] = "proxies" /\ p[2] \in Names ->
              ServeProxy(srv, rq.verb, p[2], rq.body)
         [] Len(p) = 3 /\ p[1] = "proxies" /\ p[2] \in Names /\ p[3] = "toxics" ->
              ServeToxics(srv, rq.verb, p[2], rq.body)
         [] Len(p) = 4 /\ p[1] = "proxies" /\ p[2] \in Names /\ p[3] = "toxics" ->
              ServeToxic(srv, rq.verb, p[2], p[4])
         [] OTHER -> NotFound(srv)

\* ------------------------------------------------------- toxic builders
\* Each builder is modelled by the ToxicPack it hands to create_toxic.

with_latency_upon_condition(stream, latency, jitter, toxicity, condition) ==
    new_with_condition("latency", stream, toxicity,
                       [latency |-> latency, jitter |-> jitter], condition)

with_latency(stream, latency, jitter, toxicity) ==
    with_latency_upon_condition(stream, latency, jitter, toxicity, None)

with_bandwidth_upon_condition(stream, rate, toxicity, condition) ==
    new_with_condition("bandwidth", stream, toxicity, [rate |-> rate], condition)

with_bandwidth(stream, rate, toxicity) ==
    with_bandwidth_upon_condition(stream, rate, toxicity, None)

with_slow_close_upon_condition(stream, delay, toxicity, condition) ==
    new_with_condition("slow_close", stream, toxicity, [delay |-> delay], condition)

with_slow_close(stream, delay, toxicity) ==
    with_slow_close_upon_condition(stream, delay, toxicity, None)

with_timeout_upon_condition(stream, timeout, toxicity, condition) ==
    new_with_condition("timeout", stream, toxicity, [timeout |-> timeout], condition)

with_timeout(stream, timeout, toxicity) ==
    with_timeout_upon_condition(stream, timeout, toxicity, None)

with_slicer_upon_condition(stream, average_size, size_variation, delay, toxicity, condition) ==
    new_with_condition("slicer", stream, toxicity,
                       [average_size |-> average_size,
                        size_variation |-> size_variation,
                        delay |-> delay], condition)

with_slicer(stream, average_size, size_variation, delay, toxicity) ==
    with_slicer_upon_condition(stream, average_size, size_variation, delay,
                               toxicity, None)

with_limit_data_upon_condition(stream, bytes, toxicity, condition) ==
    new_with_condition("limit_data", stream, toxicity, [bytes |-> bytes], condition)

with_limit_data(stream, bytes, toxicity) ==
    with_limit_data_upon_condition(stream, bytes, toxicity, None)

\* The condition of the documentation examples, and that of the tests.
DocCondition == Some(new_http_request_header_matcher("api-key", "123456"))
TestCondition == Some(new_http_request_header_matcher("x-api-key", "123"))

Types ==
    <<"latency", "bandwidth", "slow_close", "timeout", "slicer", "limit_data">>

\* The builder of `type` without a condition, called with the arguments of
\* its documentation example.
Plain(type, stream) ==
    CASE type = "latency" -> with_latency(stream, 2000, 0, 100)
      [] type = "bandwidth" -> with_bandwidth(stream, 500, 100)
      [] type = "slow_close" -> with_slow_close(stream, 500, 100)
      [] type = "timeout" -> with_timeout(stream, 5000, 100)
      [] type = "slicer" -> with_slicer(stream, 1024, 128, 500, 100)
      [] type = "limit_data" -> with_limit_data(stream, 2048, 100)

\* The *_upon_condition builder of `type`, with the same arguments.
UponCondition(type, stream, condition) ==
    CASE type = "latency" ->
           with_latency_upon_condition(stream, 2000, 0, 100, condition)
      [] type = "bandwidth" ->
           with_bandwidth_upon_condition(stream, 500, 100, condition)
      [] type = "slow_close" ->
           with_slow_close_upon_condition(stream, 500, 100, condition)
      [] type = "timeout" ->
           with_timeout_upon_condition(stream, 5000, 100, condition)
      [] type = "slicer" ->
           with_slicer_upon_condition(stream, 1024, 128, 500, 100, condition)
      [] type = "limit_data" ->
           with_limit_data_upon_condition(stream, 2048, 100, condition)

\* The builder calls one run draws from: three toxics of different names.
\* The menus together call each of the twelve builders on both streams.
Menu(k) ==
    { Plain(Types[k], "downstream"),
      UponCondition(Types[k], "upstream", DocCondition),
      Plain(Types[(k % Len(Types)) + 1], "upstream") }

Menus == {Menu(k) : k \in 1..Len(Types)}

\* The builder calls of tests/toxiproxy_rust.rs.
TestCalls ==
    { with_latency("downstream", 2000, 0, 100),
      with_latency_upon_condition("upstream", 2000, 0, 100, TestCondition) }

\* ------------------------------------------------- requests of a handle
\* A request is [verb, path, body]; pp is the ProxyPack of the handle (self).

\* Proxy::update: POST proxies/{name}
update(pp, payload) ==
    [verb |-> "POST", path |-> <<"proxies", pp.name>>, body |-> Some(payload)]

\* Proxy::disable: the payload {"enabled": false}
disable(pp) == update(pp, [enabled |-> FALSE])

\* enable that sends the payload of disable.
enable_sends_false(pp) == update(pp, [enabled |-> FALSE])

\* Proxy::enable: the payload {"enabled": true}
enable(pp) == update(pp, [enabled |-> TRUE])

\* delete that disables the proxy instead.
delete_sends_disable(pp) == update(pp, [enabled |-> FALSE])

\* Proxy::delete: DELETE proxies/{name}
delete(pp) ==
    [verb |-> "DELETE", path |-> <<"proxies", pp.name>>, body |-> None]

\* Proxy::toxics: GET proxies/{name}/toxics
toxics(pp) ==
    [verb |-> "GET", path |-> <<"proxies", pp.name, "toxics">>, body |-> None]

\* Proxy::create_toxic: POST proxies/{name}/toxics with the serialized toxic
create_toxic(pp, toxic) ==
    [verb |-> "POST", path |-> <<"proxies", pp.name, "toxics">>,
     body |-> Some(ToxicToJson(toxic))]

\* A loop body that deletes the proxy, not the toxic.
delete_toxic_deletes_proxy(pp, toxic) == delete(pp)

\* The loop body of Proxy::delete_all_toxics:
\* DELETE proxies/{name}/toxics/{toxic.name}
delete_toxic(pp, toxic) ==
    [verb |-> "DELETE", path |-> <<"proxies", pp.name, "toxics", toxic.name>>,
     body |-> None]

\* ------------------------------------------- requests of the registry
\* The registry (TOXIPROXY) is called by the tests; it shares the handle's
\* Arc<Mutex<HttpClient>>.

find_proxy(name) ==
    [verb |-> "GET", path |-> <<"proxies", name>>, body |-> None]

all == [verb |-> "GET", path |-> <<"proxies">>, body |-> None]

populate(cfgs) ==
    [verb |-> "POST", path |-> <<"proxies">>,
     body |-> Some([i \in 1..Len(cfgs) |-> ProxyToJson(cfgs[i])])]

\* ------------------------------------------------------ results, events

Ok(val) == [ok |-> TRUE, val |-> val, err |-> None]

\* An Err(String); the model keeps its kind ("lock" or "http") and the
\* request it arose at instead of the message.
Err(kind, rq) ==
    [ok |-> FALSE, val |-> None, err |-> Some([kind |-> kind, at |-> rq])]

\* One entry of the record of what a call did: a request answered (ev =
\* "request"), a lock() that failed ("lockfail"), the closure called
\* ("closure") or returned ("returned").  own: by the called method itself,
\* not by the closure it runs.
Event(ev, rq, ok, own) == [ev |-> ev, rq |-> rq, ok |-> ok, own |-> own]

NoCall == [op |-> "none", name |-> "", body |-> "", arg |-> None, pre |-> 0]

Idle ==
    [pc |-> "idle", stack |-> <<>>, req |-> None, todo |-> <<>>,
     got |-> None, inner |-> None, log |-> <<>>, ret |-> None, obs |-> None,
     call |-> NoCall]

\* The frames of a closure: the thread is inside the closure's body.
ClosureFrames == {"closure_lookup", "closure_count_1", "closure_count_2"}

InClosure(stack) == \E i \in 1..Len(stack) : stack[i] \in ClosureFrames

\* The frames whose handle (self) is the one a lookup in progress made.
InnerFrames == {"find_and_reset_proxy_2", "closure_count_2"}

\* self.proxy_pack of the method running on top of the frames `stack`.
Self(s, stack, h) ==
    IF \E i \in 1..Len(stack) : stack[i] \in InnerFrames
    THEN s.inner[1] ELSE h[1]

Logged(s, e) == [s EXCEPT !.log = Append(@, e)]

\* The method `leaf` issues request rq: next it locks the client.
Send(s, frames, rq) ==
    [s EXCEPT !.pc = "lock", !.stack = frames, !.req = Some(rq)]

RECURSIVE Resume(_, _, _)

\* panic!: the thread unwinds; nothing of the call is left.
Panic(s) ==
    [s EXCEPT !.pc = "panicked", !.stack = <<>>, !.req = None,
              !.todo = <<>>, !.got = None, !.inner = None]

\* Proxy::with_down after `closure()` returned: `self.enable()`.
with_down_enable(s, rest, h) ==
    Send(s, <<"enable", "with_down_3">> \o rest, enable(Self(s, rest, h)))

\* with_down that never calls the closure.
with_down_skips_closure(s, rest, h) == with_down_enable(s, rest, h)

\* Proxy::with_down after `self.disable()?` returned Ok: call the closure.
with_down_closure(s, rest, h) ==
    [s EXCEPT !.pc = "closure", !.stack = <<"with_down_2">> \o rest,
              !.req = None]

\* create_toxic that hands the Err to its caller, as the other methods do.
create_toxic_returns_err(s, rest, h, r) ==
    Resume([s EXCEPT !.stack = rest], h, r)

\* Proxy::create_toxic after post_with_data returned r: `self`, or the
\* panic! of its map_err.
create_toxic_result(s, rest, h, r) ==
    IF r.ok THEN Resume([s EXCEPT !.stack = rest], h, Ok(None)) ELSE Panic(s)

\* Every method calling .expect(ERR_LOCK) on the lock.
lock_failed_expect(s, h, rq) == Panic(s)

\* A method whose `self.client.lock()` returned Err: .expect(ERR_LOCK) in
\* create_toxic, .map_err(|err| format!("lock error: {}", err))? in the
\* others.
lock_failed(s, h, rq) ==
    IF Head(s.stack) = "create_toxic" THEN Panic(s)
    ELSE Resume(s, h, Err("lock", rq))

\* A client used without waiting for the guard.
lock_not_awaited(m, t) == TRUE

\* Mutex::lock returns the guard to thread t once no thread holds one.
lock_free(m, t) == m.holder = 0

\* Proxy::delete_all_toxics, its first step: `self.toxics()`.
delete_all_toxics_fetch(s, rest, pp) ==
    Send(s, <<"toxics", "delete_all_toxics_1">> \o rest, toxics(pp))

\* delete_all_toxics that returns Ok(()) without deleting.
delete_all_toxics_without_loop(s, rest, h) ==
    Resume([s EXCEPT !.stack = rest, !.todo = <<>>], h, Ok(None))

\* Proxy::delete_all_toxics, `for toxic in toxic_list`: the next DELETE, or
\* Ok(()) after the last.  `rest` are the frames of the callers.
delete_all_toxics_loop(s, rest, h) ==
    IF s.todo = <<>>
    THEN Resume([s EXCEPT !.stack = rest], h, Ok(None))
    ELSE Send([s EXCEPT !.todo = Tail(@)],
              <<"delete_all_toxics_2">> \o rest,
              delete_toxic(Self(s, rest, h), Head(s.todo)))

\* delete_all_toxics that goes on after a DELETE failed.
delete_all_toxics_ignores_failure(s, rest, h, r) ==
    delete_all_toxics_loop(s, rest, h)

\* Proxy::delete_all_toxics after `.delete(&path)?` returned r.
delete_all_toxics_next(s, rest, h, r) ==
    IF r.ok THEN delete_all_toxics_loop(s, rest, h)
    ELSE Resume([s EXCEPT !.stack = rest, !.todo = <<>>], h, r)

\* apply that returns Ok(()) without the cleanup.
apply_without_cleanup(s, rest, h) ==
    Resume([s EXCEPT !.stack = rest], h, Ok(None))

\* Proxy::apply after `closure()` returned: `self.delete_all_toxics()`.
apply_delete_all_toxics(s, rest, h) ==
    delete_all_toxics_fetch(s, <<"apply_2">> \o rest, Self(s, rest, h))

\* A failed lookup of the closure handed on as the result of the call.
closure_lookup_translated(s, rest, h, r) ==
    Resume([s EXCEPT !.stack = <<>>, !.inner = None], h, r)

\* find_and_reset_proxy that returns the proxy it found as it is.
find_and_reset_proxy_without_reset(s, rest, h, r) ==
    Resume([s EXCEPT !.stack = rest], h, r)

\* find_and_reset_proxy after find_proxy returned r: on Ok(proxy),
\* proxy.delete_all_toxics(), on Err the Err.
find_and_reset_proxy_reset(s, rest, h, r) ==
    IF r.ok
    THEN delete_all_toxics_fetch([s EXCEPT !.inner = r.val],
                                 <<"find_and_reset_proxy_2">> \o rest,
                                 r.val[1])
    ELSE Resume([s EXCEPT !.stack = rest], h, r)

\* The closure of test_proxy_down after find_and_reset_proxy returned r.
closure_lookup(s, rest, h, r) ==
    IF ~r.ok THEN Panic(s)                     \* assert!(result.is_ok())
    ELSE LET seen == [s EXCEPT !.obs = Some(r.val[1].enabled)]
         IN IF r.val[1].enabled THEN Panic(seen)   \* assert!(!...enabled)
            ELSE Resume(Logged([seen EXCEPT !.stack = rest, !.inner = None],
                               Event("returned", None, TRUE, FALSE)),
                        h, Ok(None))

\* The closure of test_proxy_apply_with_latency after all() returned r.
closure_count_all(s, rest, r) ==
    IF ~r.ok THEN Panic(s)                     \* assert!(all.is_ok())
    ELSE IF s.call.name \notin DOMAIN r.val[1]
         THEN Panic(s)                         \* assert!(proxy.is_some())
         ELSE LET got == r.val[1][s.call.name]
              IN Send([s EXCEPT !.inner = Some(got)],
                      <<"toxics", "closure_count_2">> \o rest, toxics(got))

\* The same closure after proxy.toxics() returned r.
closure_count_toxics(s, rest, h, r) ==
    IF ~r.ok THEN Panic(s)                     \* assert!(proxy_toxics.is_ok())
    ELSE LET seen == [s EXCEPT !.obs = Some(Len(r.val[1]))]
         IN IF Len(r.val[1]) # 1 THEN Panic(seen)  \* assert_eq!(1, ...len())
            ELSE Resume(Logged([seen EXCEPT !.stack = rest, !.inner = None],
                               Event("returned", None, TRUE, FALSE)),
                        h, Ok(None))

\* The result r reaches the frame on top of s.stack: the code after the
\* call that frame awaits runs up to the next request, the closure, a panic
\* or the return of the whole call.  h is the Option of the thread's handle.
Resume(s, h, r) ==
    IF s.stack = <<>>
    THEN [s EXCEPT !.pc = "done", !.req = None, !.ret = Some(r)]
    ELSE
    LET f == Head(s.stack)
        rest == Tail(s.stack)
        up == [s EXCEPT !.stack = rest]
    IN CASE f \in {"enable", "disable", "delete"} ->        \* .map(|_| ())
              Resume(up, h, IF r.ok THEN Ok(None) ELSE r)
         [] f = "toxics" ->                                 \* response.json()
              Resume(up, h, IF r.ok THEN Ok(Some(ToxicsFromJson(r.val[1])))
                            ELSE r)
         [] f = "create_toxic" -> create_toxic_result(s, rest, h, r)
         [] f = "with_down_1" ->                            \* self.disable()?
              IF r.ok THEN with_down_closure(s, rest, h) ELSE Resume(up, h, r)
         [] f = "with_down_2" -> with_down_enable(s, rest, h)
         [] f = "with_down_3" -> Resume(up, h, r)
         [] f = "apply_1" -> apply_delete_all_toxics(s, rest, h)
         [] f = "apply_2" -> Resume(up, h, r)
         [] f = "delete_all_toxics_1" ->                    \* .and_then(..)
              IF r.ok
              THEN delete_all_toxics_loop(
                       [s EXCEPT !.todo = r.val[1], !.got = r.val], rest, h)
              ELSE Resume(up, h, r)
         [] f = "delete_all_toxics_2" -> delete_all_toxics_next(s, rest, h, r)
         [] f = "find_proxy" ->
              Resume(up, h, IF r.ok THEN Ok(Some(ProxyFromJson(r.val[1])))
                            ELSE r)
         [] f = "find_and_reset_proxy_1" ->
              find_and_reset_proxy_reset(s, rest, h, r)
         [] f = "find_and_reset_proxy_2" ->
              Resume(up, h, IF r.ok THEN Ok(s.inner) ELSE r)
         [] f = "all" ->
              Resume(up, h,
                     IF r.ok
                     THEN Ok(Some([n \in DOMAIN r.val[1] |->
                                      ProxyFromJson(r.val[1][n])]))
                     ELSE r)
         [] f = "populate" ->
              Resume(up, h,
                     IF r.ok
                     THEN Ok(Some([i \in 1..Len(r.val[1]) |->
                                      ProxyFromJson(r.val[1][i])]))
                     ELSE r)
         [] f = "closure_lookup" -> closure_lookup(s, rest, h, r)
         [] f = "closure_count_1" -> closure_count_all(s, rest, r)
         [] f = "closure_count_2" -> closure_count_toxics(s, rest, h, r)

\* --------------------------------------------------------------- calls

\* The proxy the tests work on; the server may hold others.
Target == "socket"

Bodies == {"noop", "lookup", "count"}

\* The thread state at the start of a call of `op` on the proxy `name`;
\* pre: how many toxics the proxy holds when a builder or apply is called.
Start(op, name, body, arg) ==
    [Idle EXCEPT !.call = [op |-> op, name |-> name, body |-> body,
                           arg |-> arg,
                           pre |-> IF op \in {"builder", "apply"}
                                   THEN Len(server[name].toxics) ELSE 0]]

CanCall(t) ==
    /\ t \in clients /\ th[t].pc \in {"idle", "done"}
    /\ IF budget[t] = None THEN TRUE ELSE budget[t][1] > 0

Keep == UNCHANGED <<server, mutex, proxy, inputs, clients, budget>>

\* A call starts: one call less is left to the thread.
Called(t) ==
    /\ budget' = [budget EXCEPT ![t] =
                     IF @ = None THEN None ELSE Some(@[1] - 1)]
    /\ UNCHANGED <<server, mutex, proxy, inputs, clients>>

CallEnable(t) ==
    /\ CanCall(t) /\ proxy[t] # None
    /\ LET pp == proxy[t][1]
       IN th' = [th EXCEPT ![t] =
                    Send(Start("enable", pp.name, "", None),
                         <<"enable">>, enable(pp))]
    /\ Called(t)

CallDisable(t) ==
    /\ CanCall(t) /\ proxy[t] # None
    /\ LET pp == proxy[t][1]
       IN th' = [th EXCEPT ![t] =
                    Send(Start("disable", pp.name, "", None),
                         <<"disable">>, disable(pp))]
    /\ Called(t)

CallDelete(t) ==
    /\ CanCall(t) /\ proxy[t] # None
    /\ LET pp == proxy[t][1]
       IN th' = [th EXCEPT ![t] =
                    Send(Start("delete", pp.name, "", None),
                         <<"delete">>, delete(pp))]
    /\ Called(t)

CallToxics(t) ==
    /\ CanCall(t) /\ proxy[t] # None
    /\ LET pp == proxy[t][1]
       IN th' = [th EXCEPT ![t] =
                    Send(Start("toxics", pp.name, "", None),
                         <<"toxics">>, toxics(pp))]
    /\ Called(t)

\* One of the twelve builders: with_latency ... with_limit_data_upon_condition.
CallBuilder(t) ==
    /\ CanCall(t) /\ proxy[t] # None
    /\ Len(server[proxy[t][1].name].toxics) < MaxToxics
    /\ \E toxic \in inputs :
         LET pp == proxy[t][1]
         IN th' = [th EXCEPT ![t] =
                      Send(Start("builder", pp.name, "", Some(toxic)),
                           <<"create_toxic">>, create_toxic(pp, toxic))]
    /\ Called(t)

CallDeleteAllToxics(t) ==
    /\ CanCall(t) /\ proxy[t] # None
    /\ LET pp == proxy[t][1]
       IN th' = [th EXCEPT ![t] =
                    delete_all_toxics_fetch(
                        Start("delete_all_toxics", pp.name, "", None),
                        <<>>, pp)]
    /\ Called(t)

\* Proxy::with_down: `self.disable()?` first.
CallWithDown(t) ==
    /\ CanCall(t) /\ proxy[t] # None
    /\ \E body \in Bodies :
         LET pp == proxy[t][1]
         IN th' = [th EXCEPT ![t] =
                      Send(Start("with_down", pp.name, body, None),
                           <<"disable", "with_down_1">>, disable(pp))]
    /\ Called(t)

\* Proxy::apply: `closure()` first.
CallApply(t) ==
    /\ CanCall(t) /\ proxy[t] # None
    /\ \E body \in Bodies :
         LET pp == proxy[t][1]
         IN th' = [th EXCEPT ![t] =
                      [Start("apply", pp.name, body, None)
                         EXCEPT !.pc = "closure", !.stack = <<"apply_1">>]]
    /\ Called(t)

\* The name the call before this one deleted, when that call was a
\* delete() that returned Ok.
LastDelete(s) ==
    IF s.pc = "done" /\ s.call.op = "delete"
    THEN IF s.ret[1].ok THEN Some(s.call.name) ELSE None
    ELSE None

CallPopulate(t) ==
    /\ CanCall(t)
    /\ \E n \in Names :
         th' = [th EXCEPT ![t] =
                   Send(Start("populate", n, "", LastDelete(th[t])),
                        <<"populate">>,
                        populate(<<ProxyPack_new(n, Listen(n), Upstream(n))>>))]
    /\ Called(t)

CallFindProxy(t) ==
    /\ CanCall(t)
    /\ th' = [th EXCEPT ![t] =
              Send(Start("find_proxy", Target, "", None),
                   <<"find_proxy">>, find_proxy(Target))]
    /\ Called(t)

\* What the call before this one left, when that call was a
\* find_and_reset_proxy that returned Ok: its handle and the server then.
LastReset(s) ==
    IF s.pc = "done" /\ s.call.op = "find_and_reset_proxy"
    THEN IF s.ret[1].ok
         THEN Some([handle |-> s.ret[1].val[1], server |-> server])
         ELSE None
    ELSE None

CallFindAndResetProxy(t) ==
    /\ CanCall(t)
    /\ th' = [th EXCEPT ![t] =
              Send(Start("find_and_reset_proxy", Target, "", LastReset(th[t])),
                   <<"find_proxy", "find_and_reset_proxy_1">>,
                   find_proxy(Target))]
    /\ Called(t)

\* The name the call before this one populated, when that call was a
\* populate that returned Ok.
LastPopulate(s) ==
    IF s.pc = "done" /\ s.call.op = "populate"
    THEN IF s.ret[1].ok THEN Some(s.call.name) ELSE None
    ELSE None

CallAll(t) ==
    /\ CanCall(t)
    /\ th' = [th EXCEPT ![t] =
              Send(Start("all", Target, "", LastPopulate(th[t])),
                   <<"all">>, all)]
    /\ Called(t)

\* The closure handed to with_down or apply starts.
RunClosure(t) ==
    /\ t \in clients /\ th[t].pc = "closure"
    /\ LET s == Logged(th[t], Event("closure", None, TRUE, FALSE))
           n == s.call.name
       IN th' = [th EXCEPT ![t] =
            CASE s.call.body = "noop" ->
                   Resume(Logged(s, Event("returned", None, TRUE, FALSE)),
                          proxy[t], Ok(None))
              [] s.call.body = "lookup" ->
                   Send(s, <<"find_proxy", "find_and_reset_proxy_1",
                             "closure_lookup">> \o s.stack, find_proxy(n))
              [] s.call.body = "count" ->
                   Send(s, <<"all", "closure_count_1">> \o s.stack, all)]
    /\ Keep

\* A handle whose enabled flag follows its own enable() and disable().
Bound_refreshed(s, h) ==
    IF s.pc = "done" /\ s.ret[1].ok /\ s.call.name = "socket"
    THEN CASE s.call.op \in {"find_proxy", "find_and_reset_proxy"} ->
                s.ret[1].val
           [] s.call.op = "populate" -> Some(s.ret[1].val[1][1])
           [] s.call.op \in {"enable", "disable"} /\ h # None ->
                Some([h[1] EXCEPT !.enabled = (s.call.op = "enable")])
           [] OTHER -> h
    ELSE h

\* The handle the caller holds once the call has returned: populate,
\* find_proxy and find_and_reset_proxy return new handles, and the tests
\* keep that of the proxy they work on.
Bound(s, h) ==
    IF s.pc = "done" /\ s.ret[1].ok /\ s.call.name = Target
    THEN CASE s.call.op \in {"find_proxy", "find_and_reset_proxy"} ->
                s.ret[1].val
           [] s.call.op = "populate" -> Some(s.ret[1].val[1][1])
           [] OTHER -> h
    ELSE h

\* `self.client.lock()`: Err when the mutex is poisoned, else the guard once
\* no other thread holds it.  create_toxic calls .expect(ERR_LOCK) on it, the
\* other methods .map_err(..)?.
Lock(t) ==
    /\ t \in clients /\ th[t].pc = "lock"
    /\ LET s == th[t]
           rq == s.req[1]
           failed == Logged(s, Event("lockfail", s.req, FALSE,
                                     ~InClosure(s.stack)))
       IN IF mutex.poisoned
          THEN /\ th' = [th EXCEPT ![t] = lock_failed(failed, proxy[t], rq)]
               /\ mutex' = mutex
          ELSE /\ lock_free(mutex, t)
               /\ mutex' = [mutex EXCEPT !.holder = t]
               /\ th' = [th EXCEPT ![t].pc = "inflight"]
    /\ proxy' = [proxy EXCEPT ![t] = Bound(th'[t], @)]
    /\ UNCHANGED <<server, inputs, clients, budget>>

\* A guard that with_down keeps from its disable() to its end.
guard_kept_by_with_down(m, s, ok) ==
    IF s.stack = <<"disable", "with_down_1">> /\ ok
    THEN m
    ELSE [holder |-> 0, poisoned |-> m.poisoned]

\* The MutexGuard, a temporary of the statement that made the request, is
\* dropped at the end of the statement; dropped by the panic! of
\* create_toxic, it poisons the mutex.
guard_dropped(m, s, ok) ==
    [holder |-> 0,
     poisoned |-> m.poisoned \/ (Head(s.stack) = "create_toxic" /\ ~ok)]

\* The request is answered (or fails in transport) and the guard is
\* dropped.  A create_toxic that fails panics inside map_err, while the
\* guard is alive: the mutex is poisoned.
Respond(t) ==
    /\ t \in clients /\ th[t].pc = "inflight"
    /\ \E lost \in BOOLEAN :
         LET s == th[t]
             rq == s.req[1]
             reply == IF lost THEN NotFound(server) ELSE Serve(server, rq)
             r == IF reply.ok THEN Ok(reply.val) ELSE Err("http", rq)
             logged == Logged(s, Event("request", s.req, reply.ok,
                                       ~InClosure(s.stack)))
         IN /\ server' = reply.srv
            /\ mutex' = guard_dropped(mutex, s, reply.ok)
            /\ th' = [th EXCEPT ![t] = Resume(logged, proxy[t], r)]
    /\ proxy' = [proxy EXCEPT ![t] = Bound(th'[t], @)]
    /\ UNCHANGED <<inputs, clients, budget>>

\* The caller of a call that panicked goes on (the next test of the
\* process, or catch_unwind around the call).
Recover(t) ==
    /\ t \in clients /\ th[t].pc = "panicked"
    /\ th' = [th EXCEPT ![t] = Idle]
    /\ Keep

Next ==
    \E t \in Threads :
       \/ CallEnable(t) \/ CallDisable(t) \/ CallDelete(t) \/ CallToxics(t)
       \/ CallBuilder(t) \/ CallDeleteAllToxics(t)
       \/ CallWithDown(t) \/ CallApply(t)
       \/ CallPopulate(t) \/ CallFindProxy(t) \/ CallFindAndResetProxy(t)
       \/ CallAll(t)
       \/ RunClosure(t) \/ Lock(t) \/ Respond(t) \/ Recover(t)

\* What the server may hold of a proxy no handle of this run is for.
OtherStates ==
    { Absent,
      [exists |-> TRUE, enabled |-> FALSE,
       toxics |-> <<ToxicToJson(with_timeout("upstream", 5000, 100))>>] }

Unlocked == [holder |-> 0, poisoned |-> FALSE]

\* One test thread and the builder calls of one menu; the server holds no
\* proxy of the tests yet and the thread has no handle.
Init ==
    /\ server \in {srv \in [Names -> OtherStates] : srv[Target] = Absent}
    /\ mutex = Unlocked
    /\ th = [t \in Threads |-> Idle]
    /\ proxy = [t \in Threads |-> None]
    /\ inputs \in Menus
    /\ clients = {1}
    /\ budget = [t \in Threads |-> None]

Spec == Init /\ [][Next]_vars

\* The lists of at most n different toxics of `packs`, as the server holds
\* them.
RECURSIVE ToxicLists(_, _)
ToxicLists(packs, n) ==
    IF n = 0 THEN {<<>>}
    ELSE LET shorter == ToxicLists(packs, n - 1)
         IN shorter \cup
            { Append(l, ToxicToJson(x)) :
                <<l, x>> \in { lx \in shorter \X packs :
                                 ToxicIndex(lx[1], lx[2].name) = {} } }

\* Threads that share the client, each with a handle as populate returned
\* it and MaxCalls calls to make; the proxy is in any state earlier calls
\* may have left it in.
InitConc ==
    /\ inputs = TestCalls
    /\ server \in { srv \in [Names -> OtherStates \cup
                                 { [exists |-> TRUE, enabled |-> e, toxics |-> l] :
                                     e \in BOOLEAN,
                                     l \in ToxicLists(TestCalls, MaxToxics) }] :
                       srv[Target].exists /\ srv["other"] \in OtherStates }
    /\ mutex = Unlocked
    /\ th = [t \in Threads |-> Idle]
    /\ proxy = [t \in Threads |->
                   Some(ProxyPack_new(Target, Listen(Target), Upstream(Target)))]
    /\ clients = Threads
    /\ budget = [t \in Threads |-> Some(MaxCalls)]

SpecConc == InitConc /\ [][Next]_vars

\* One thread that makes MaxCalls calls on a handle as populate returned
\* it, with the proxy in any state and the mutex poisoned or not by an
\* earlier call; the thread is scheduled and its requests are answered.
InitSolo ==
    /\ inputs = TestCalls
    /\ server \in { srv \in [Names -> OtherStates \cup
                                 { [exists |-> TRUE, enabled |-> e, toxics |-> l] :
                                     e \in BOOLEAN,
                                     l \in ToxicLists(TestCalls, MaxToxics) }] :
                       srv[Target].exists /\ srv["other"] \in OtherStates }
    /\ mutex \in {[holder |-> 0, poisoned |-> p] : p \in BOOLEAN}
    /\ th = [t \in Threads |-> Idle]
    /\ proxy = [t \in Threads |->
                   Some(ProxyPack_new(Target, Listen(Target), Upstream(Target)))]
    /\ clients = {1}
    /\ budget = [t \in Threads |-> Some(MaxCalls)]

\* The steps of a call in progress.
Steps(t) == RunClosure(t) \/ Lock(t) \/ Respond(t)

SpecSolo == InitSolo /\ [][Next]_vars /\ \A t \in Threads : WF_vars(Steps(t))

\* ------------------------------------------- the builders side by side
\* The builders as functions of their arguments: the ToxicPacks they
\* construct are collected in `inputs`; no request is made.

Streams == {"upstream", "downstream"}

\* Toxicities (f32, in percent) and attribute values (u32) to call with.
Toxicities == {50, 100}
AttributeValues == {<<2000, 0, 500>>, <<1024, 128, 100>>}
Conditions == {DocCondition, TestCondition}

\* with_{type}(stream, v.., toxicity)
BuildPlain(type, stream, v, toxicity) ==
    CASE type = "latency" -> with_latency(stream, v[1], v[2], toxicity)
      [] type = "bandwidth" -> with_bandwidth(stream, v[1], toxicity)
      [] type = "slow_close" -> with_slow_close(stream, v[1], toxicity)
      [] type = "timeout" -> with_timeout(stream, v[1], toxicity)
      [] type = "slicer" -> with_slicer(stream, v[1], v[2], v[3], toxicity)
      [] type = "limit_data" -> with_limit_data(stream, v[1], toxicity)

\* with_{type}_upon_condition(stream, v.., toxicity, condition)
BuildUponCondition(type, stream, v, toxicity, condition) ==
    CASE type = "latency" ->
           with_latency_upon_condition(stream, v[1], v[2], toxicity, condition)
      [] type = "bandwidth" ->
           with_bandwidth_upon_condition(stream, v[1], toxicity, condition)
      [] type = "slow_close" ->
           with_slow_close_upon_condition(stream, v[1], toxicity, condition)
      [] type = "timeout" ->
           with_timeout_upon_condition(stream, v[1], toxicity, condition)
      [] type = "slicer" ->
           with_slicer_upon_condition(stream, v[1], v[2], v[3], toxicity,
                                      condition)
      [] type = "limit_data" ->
           with_limit_data_upon_condition(stream, v[1], toxicity, condition)

\* A builder called while fewer than MaxPacks packs are kept.
ConstructPlain ==
    /\ Cardinality(inputs) < MaxPacks
    /\ \E k \in 1..Len(Types), stream \in Streams, v \in AttributeValues,
          toxicity \in Toxicities :
          inputs' = inputs \cup {BuildPlain(Types[k], stream, v, toxicity)}
    /\ UNCHANGED <<server, mutex, th, proxy, clients, budget>>

ConstructUponCondition ==
    /\ Cardinality(inputs) < MaxPacks
    /\ \E k \in 1..Len(Types), stream \in Streams, v \in AttributeValues,
          toxicity \in Toxicities, condition \in Conditions :
          inputs' = inputs \cup {BuildUponCondition(Types[k], stream, v,
                                                   toxicity, condition)}
    /\ UNCHANGED <<server, mutex, th, proxy, clients, budget>>

InitToxic ==
    /\ inputs = {}
    /\ server = [n \in Names |-> Absent]
    /\ mutex = Unlocked
    /\ th = [t \in Threads |-> Idle]
    /\ proxy = [t \in Threads |-> None]
    /\ clients = {}
    /\ budget = [t \in Threads |-> None]

NextToxic == ConstructPlain \/ ConstructUponCondition

SpecToxic == InitToxic /\ [][NextToxic]_vars

\* ------------------------------------------------------------ the claims

\* The requests as they are on the wire.
PostEnabled(name, flag) ==
    [verb |-> "POST", path |-> <<"proxies", name>>,
     body |-> Some([enabled |-> flag])]

GetToxics(name) ==
    [verb |-> "GET", path |-> <<"proxies", name, "toxics">>, body |-> None]

DeleteToxic(name, toxicName) ==
    [verb |-> "DELETE", path |-> <<"proxies", name, "toxics", toxicName>>,
     body |-> None]

GetProxy(name) ==
    [verb |-> "GET", path |-> <<"proxies", name>>, body |-> None]

\* A request answered or refused by the lock.
Attempt(e) == e.ev \in {"request", "lockfail"}

\* The attempts of the called method itself, in order.
OwnAttempts(log) == SelectSeq(log, LAMBDA e : e.own /\ Attempt(e))

Count(log, ev) == Len(SelectSeq(log, LAMBDA e : e.ev = ev))

\* The Err an attempt that failed gives.
ErrOf(e) == Err(IF e.ev = "lockfail" THEN "lock" ELSE "http", e.rq[1])

\* C1: with_down issues disable, then runs the closure, then issues enable.
\* When the disable request succeeded the closure runs exactly once and the
\* enable request is issued after it returned; when disable failed the
\* closure is not run and no enable request is issued.
C1_WithDownOrder ==
    \A t \in clients :
       th[t].call.op = "with_down" =>
          LET s == th[t]
              L == s.log
              n == s.call.name
              disabled == Event("request", Some(PostEnabled(n, FALSE)),
                                TRUE, TRUE)
          IN /\ \A i \in 1..Len(L) :
                   /\ L[i].ev = "closure" => i = 2 /\ L[1] = disabled
                   /\ (L[i].own /\ L[i].ev = "request") =>
                         \/ i = 1 /\ L[i].rq = Some(PostEnabled(n, FALSE))
                         \/ /\ i > 2 /\ i = Len(L)
                            /\ L[i].rq = Some(PostEnabled(n, TRUE))
                            /\ L[i - 1].ev = "returned"
             /\ (s.pc = "inflight" /\ ~InClosure(s.stack)) =>
                   \/ L = <<>> /\ s.req = Some(PostEnabled(n, FALSE))
                   \/ /\ L # <<>> /\ L[Len(L)].ev = "returned"
                      /\ s.req = Some(PostEnabled(n, TRUE))
             /\ s.pc = "done" =>
                   IF L[1] = disabled
                   THEN /\ Count(L, "closure") = 1
                        /\ Count(L, "returned") = 1
                        /\ L[Len(L)].own /\ L[Len(L)].ev = "request"
                        /\ L[Len(L)].rq = Some(PostEnabled(n, TRUE))
                   ELSE Len(L) = 1

C1_Witness ==
    \E t \in clients :
       /\ th[t].pc = "done" /\ th[t].call.op = "with_down"
       /\ th[t].call.body = "lookup" /\ th[t].ret[1].ok
       /\ Len(th[t].log) > 4

\* C2: a lookup made by the closure of with_down sees enabled = false, and
\* once with_down has returned Ok a lookup sees enabled = true, also when
\* the closure called find_and_reset_proxy on the same name.
C2_DownInsideUpAfter ==
    \A t \in clients :
       th[t].call.op = "with_down" =>
          LET s == th[t]
              reply == Serve(server, GetProxy(s.call.name))
          IN /\ (s.call.body = "lookup" /\ s.obs # None) => s.obs = Some(FALSE)
             /\ (s.pc = "done" /\ s.ret[1].ok) =>
                   reply.ok /\ ProxyFromJson(reply.val[1]).enabled

C2_Witness ==
    \E t \in clients :
       /\ th[t].pc = "done" /\ th[t].call.op = "with_down"
       /\ th[t].call.body = "lookup" /\ th[t].ret[1].ok
       /\ th[t].obs = Some(FALSE)

\* C3: apply runs the closure exactly once before any request of its own,
\* then calls delete_all_toxics, and returns what delete_all_toxics returned.
C3_ApplyOrder ==
    \A t \in clients :
       th[t].call.op = "apply" =>
          LET s == th[t]
              L == s.log
              O == OwnAttempts(L)
          IN /\ L # <<>> => L[1].ev = "closure"
             /\ \A i \in 1..Len(L) :
                   /\ L[i].ev = "closure" => i = 1
                   /\ (L[i].own /\ Attempt(L[i])) =>
                         \E j \in 1..(i - 1) : L[j].ev = "returned"
             /\ (s.pc \in {"lock", "inflight"} /\ ~InClosure(s.stack)) =>
                   Count(L, "returned") = 1
             /\ Count(L, "returned") = 1 => s.pc \in {"lock", "inflight", "done"}
             /\ s.pc = "done" =>
                   /\ Count(L, "returned") = 1
                   /\ O # <<>> /\ O[1].rq = Some(GetToxics(s.call.name))
                   /\ \A i \in 1..(Len(O) - 1) : O[i].ok
                   /\ s.ret = Some(IF O[Len(O)].ok THEN Ok(None)
                                   ELSE ErrOf(O[Len(O)]))

C3_Witness ==
    \E t \in clients :
       /\ th[t].pc = "done" /\ th[t].call.op = "apply"
       /\ th[t].call.body = "count" /\ th[t].ret[1].ok
       /\ Len(OwnAttempts(th[t].log)) = 2

\* What toxics() on the handle of thread t returns when called now.
ToxicsNow(t) ==
    LET reply == Serve(server, toxics(proxy[t][1]))
    IN IF reply.ok THEN Ok(Some(ToxicsFromJson(reply.val[1])))
       ELSE Err("http", toxics(proxy[t][1]))

\* C4 as stated: after apply has returned, toxics() returns an empty
\* sequence, however many toxics the proxy held before.
C4_AfterApplyNoToxics ==
    \A t \in clients :
       (th[t].pc = "done" /\ th[t].call.op = "apply" /\ ToxicsNow(t).ok) =>
          ToxicsNow(t).val = Some(<<>>)

\* C4 (amended): after apply has returned Ok, toxics() returns an empty
\* sequence, however many toxics the proxy held before.
C4_AfterApplyOkNoToxics ==
    \A t \in clients :
       (th[t].pc = "done" /\ th[t].call.op = "apply" /\ th[t].ret[1].ok) =>
          ToxicsNow(t) = Ok(Some(<<>>))

C4_Witness ==
    \E t \in clients :
       /\ th[t].pc = "done" /\ th[t].call.op = "apply" /\ th[t].ret[1].ok
       /\ th[t].call.body = "noop" /\ th[t].call.pre > 1
       /\ Len(th[t].log) > 4

\* C5: delete_all_toxics fetches the list, then issues one DELETE for each
\* fetched toxic, in the order of the list, by name; the first failure ends
\* it with that error and no further DELETE, the toxics later in the list
\* stay on the server; it returns Ok only when the fetch and every DELETE
\* succeeded.
C5_DeleteAllToxics ==
    \A t \in clients :
       th[t].call.op = "delete_all_toxics" =>
          LET s == th[t]
              L == s.log
              n == s.call.name
              F == IF s.got = None THEN <<>> ELSE s.got[1]
          IN /\ \A i \in 1..Len(L) :
                   /\ L[i].own /\ Attempt(L[i])
                   /\ i = 1 => L[i].rq = Some(GetToxics(n))
                   /\ i > 1 => /\ i - 1 <= Len(F)
                               /\ L[i].rq = Some(DeleteToxic(n, F[i - 1].name))
                   /\ i < Len(L) => L[i].ok
             /\ s.pc = "done" =>
                   /\ L # <<>>
                   /\ s.ret[1].ok <=> (L[Len(L)].ok /\ Len(L) = Len(F) + 1)
                   /\ ~L[Len(L)].ok => s.ret = Some(ErrOf(L[Len(L)]))
                   /\ ~s.ret[1].ok =>
                         \A k \in Len(L)..Len(F) :
                            ToxicIndex(server[n].toxics, F[k].name) # {}

C5_Witness ==
    \E t \in clients :
       /\ th[t].pc = "done" /\ th[t].call.op = "delete_all_toxics"
       /\ ~th[t].ret[1].ok /\ th[t].got # None
       /\ Len(th[t].got[1]) = Len(th[t].log) /\ Len(th[t].log) > 1

\* The attribute keys of each toxic type.
AttributeKeys(type) ==
    CASE type = "latency" -> {"latency", "jitter"}
      [] type = "bandwidth" -> {"rate"}
      [] type = "slow_close" -> {"delay"}
      [] type = "timeout" -> {"timeout"}
      [] type = "slicer" -> {"average_size", "size_variation", "delay"}
      [] type = "limit_data" -> {"bytes"}

\* C6 as stated: after a builder, toxics() returns exactly the one toxic
\* submitted; after delete_all_toxics, toxics() returns an empty sequence.
C6_BuilderThenToxics ==
    \A t \in clients :
       th[t].pc = "done" =>
          /\ (th[t].call.op = "builder" /\ ToxicsNow(t).ok) =>
                ToxicsNow(t).val = Some(<<th[t].call.arg[1]>>)
          /\ (th[t].call.op = "delete_all_toxics" /\ ToxicsNow(t).ok) =>
                ToxicsNow(t).val = Some(<<>>)

\* C6 (amended): after a builder called on a proxy without toxics,
\* toxics() returns exactly one toxic, of the builder's type and with the
\* submitted attributes; after delete_all_toxics has returned Ok, toxics()
\* returns an empty sequence.
C6_BuilderOnCleanProxyThenToxics ==
    \A t \in clients :
       th[t].pc = "done" =>
          /\ (th[t].call.op = "builder" /\ th[t].call.pre = 0) =>
                /\ ToxicsNow(t) = Ok(Some(<<th[t].call.arg[1]>>))
                /\ LET x == ToxicsNow(t).val[1][1]
                   IN /\ x.type \in {Types[k] : k \in 1..Len(Types)}
                      /\ DOMAIN x.attributes = AttributeKeys(x.type)
                      /\ x.name = x.type \o "_" \o x.stream
          /\ (th[t].call.op = "delete_all_toxics" /\ th[t].ret[1].ok) =>
                ToxicsNow(t) = Ok(Some(<<>>))

C6_Witness ==
    \E t \in clients :
       /\ th[t].pc = "done" /\ th[t].call.op = "builder" /\ th[t].call.pre = 0
       /\ th[t].call.arg[1].type = "slicer"
       /\ th[t].call.arg[1].condition # None

\* C7: a builder either registers the toxic and returns, or panics; after a
\* failed registration it neither returns nor yields an Err.
C7_BuilderReturnsOrPanics ==
    \A t \in clients :
       th[t].call.op = "builder" =>
          LET s == th[t]
              L == s.log
              n == s.call.name
              x == s.call.arg[1]
          IN /\ Len(L) <= 1
             /\ s.ret # None => s.ret = Some(Ok(None))
             /\ s.pc = "done" =>
                   /\ L = <<Event("request",
                                  Some([verb |-> "POST",
                                        path |-> <<"proxies", n, "toxics">>,
                                        body |-> Some(ToxicToJson(x))]),
                                  TRUE, TRUE)>>
                   /\ s.ret # None
                   /\ ToxicIndex(server[n].toxics, x.name) # {}
             /\ (L # <<>> /\ ~L[1].ok) => s.pc = "panicked"

C7_Witness ==
    \E t \in clients :
       /\ th[t].pc = "panicked" /\ th[t].call.op = "builder"
       /\ th[t].log # <<>> /\ th[t].log[1].ev = "request"

\* Whether rq is a request of delete_all_toxics on the proxy `name`.
CleanupRequest(rq, name) ==
    \/ rq = GetToxics(name)
    \/ /\ rq.verb = "DELETE" /\ Len(rq.path) = 4
       /\ SubSeq(rq.path, 1, 3) = <<"proxies", name, "toxics">>

\* C8 as stated: an Err that with_down or apply returns comes from the
\* cleanup step (the enable of with_down, the delete_all_toxics of apply).
C8_ErrOnlyFromCleanup ==
    \A t \in clients :
       (th[t].pc = "done" /\ ~th[t].ret[1].ok) =>
          LET at == th[t].ret[1].err[1].at
              n == th[t].call.name
          IN /\ th[t].call.op = "with_down" => at = PostEnabled(n, TRUE)
             /\ th[t].call.op = "apply" => CleanupRequest(at, n)

\* C8 (amended): an Err that apply returns comes from its
\* delete_all_toxics; an Err that with_down returns comes from its first
\* step, the disable, or from its last, the enable; it is the error of the
\* last request of the helper itself, never one of the closure.
C8_ErrFromDisableOrCleanup ==
    \A t \in clients :
       (th[t].pc = "done" /\ ~th[t].ret[1].ok
            /\ th[t].call.op \in {"with_down", "apply"}) =>
          LET O == OwnAttempts(th[t].log)
              n == th[t].call.name
          IN /\ O # <<>>
             /\ th[t].ret = Some(ErrOf(O[Len(O)]))
             /\ ~O[Len(O)].ok
             /\ th[t].call.op = "with_down" =>
                   \/ Len(O) = 1 /\ O[1].rq = Some(PostEnabled(n, FALSE))
                   \/ Len(O) = 2 /\ O[2].rq = Some(PostEnabled(n, TRUE))
             /\ th[t].call.op = "apply" => CleanupRequest(O[Len(O)].rq[1], n)

C8_Witness ==
    \E t \in clients :
       /\ th[t].pc = "done" /\ ~th[t].ret[1].ok
       /\ th[t].call.op = "with_down" /\ th[t].call.body = "lookup"
       /\ Len(OwnAttempts(th[t].log)) = 1

HandleOps ==
    {"enable", "disable", "delete", "toxics", "delete_all_toxics", "builder"}

LockFailed(t) ==
    \E i \in 1..Len(th[t].log) : th[t].log[i].ev = "lockfail"

\* C9 as stated: a lock() that fails makes the method return an Err, in
\* every method of the handle, the builders too.
C9_LockFailureReturned ==
    \A t \in clients :
       (th[t].call.op \in HandleOps /\ LockFailed(t)) =>
          /\ th[t].pc = "done" /\ ~th[t].ret[1].ok
          /\ th[t].ret[1].err[1].kind = "lock"

\* C9 (amended): a lock() that fails makes enable, disable, delete, toxics
\* and delete_all_toxics return an Err at once; it makes a builder panic.
C9_LockFailureReturnedOrPanics ==
    \A t \in clients :
       (th[t].call.op \in HandleOps /\ LockFailed(t)) =>
          LET L == th[t].log
          IN /\ L[Len(L)].ev = "lockfail"
             /\ IF th[t].call.op = "builder"
                THEN th[t].pc = "panicked"
                ELSE /\ th[t].pc = "done"
                     /\ th[t].ret = Some(Err("lock", L[Len(L)].rq[1]))

C9_Witness ==
    \E t \in clients :
       /\ th[t].call.op = "delete" /\ LockFailed(t) /\ th[t].pc = "done"

\* C10: at most one request is in flight on the shared client; a request
\* in flight holds the lock, and the lock is held only for a request in
\* flight.
C10_OneRequestInFlight ==
    LET flying == {t \in clients : th[t].pc = "inflight"}
    IN /\ Cardinality(flying) <= 1
       /\ \A t \in flying : mutex.holder = t
       /\ mutex.holder # 0 => mutex.holder \in flying

C10_Witness ==
    \E t \in clients, u \in clients :
       /\ th[t].pc = "inflight" /\ th[u].pc = "lock"
       /\ th[u].call.op = "toxics" /\ th[t].call.op = "delete_all_toxics"

\* C11: the name of every ToxicPack a builder constructs is
\* "{type}_{stream}" (latency on downstream: "latency_downstream"); two
\* packs of the same type and stream have the same name, whatever their
\* attributes, toxicity and condition, and the same name is in the body
\* create_toxic posts for them.
C11_ToxicName ==
    \A x \in inputs :
       /\ x.name = x.type \o "_" \o x.stream
       /\ (x.type = "latency" /\ x.stream = "downstream") =>
             x.name = "latency_downstream"
       /\ \A y \in inputs :
             (x.type = y.type /\ x.stream = y.stream) =>
                /\ x.name = y.name
                /\ LET pp == ProxyPack_new(Target, Listen(Target),
                                           Upstream(Target))
                   IN create_toxic(pp, x).body[1].name
                         = create_toxic(pp, y).body[1].name
       /\ \A y \in inputs :
             (x.type # y.type \/ x.stream # y.stream) => x.name # y.name

C11_Witness ==
    \E x \in inputs, y \in inputs :
       /\ x.type = "latency" /\ x.stream = "downstream"
       /\ y.type = x.type /\ y.stream = x.stream
       /\ x.attributes # y.attributes /\ x.toxicity # y.toxicity
       /\ x.condition = None /\ y.condition # None

\* C12 as stated: find_and_reset_proxy called twice in a row on a proxy
\* that exists returns the same enabled proxy without toxics both times,
\* and the server is after the second call as it was after the first.
C12_ResetTwiceSameEnabledProxy ==
    \A t \in clients :
       (th[t].pc = "done" /\ th[t].call.op = "find_and_reset_proxy"
            /\ th[t].call.arg # None /\ th[t].ret[1].ok) =>
          LET first == th[t].call.arg[1].handle
              second == th[t].ret[1].val[1]
          IN /\ second = first
             /\ second.enabled /\ second.toxics = <<>>
             /\ server = th[t].call.arg[1].server

\* C12 (amended): after a find_and_reset_proxy that returned Ok the proxy
\* exists and holds no toxic; when a second call right after it returns Ok
\* too, the server is as it was after the first, both handles have the
\* same name, listen, upstream and enabled flag, which is the flag of the
\* proxy on the server (the call does not enable a proxy), and the second
\* handle lists no toxics.
C12_ResetTwice ==
    \A t \in clients :
       (th[t].call.op = "find_and_reset_proxy" /\ th[t].call.arg # None) =>
          LET first == th[t].call.arg[1].handle
              after == th[t].call.arg[1].server
              n == th[t].call.name
          IN /\ after[n].exists /\ after[n].toxics = <<>>
             /\ first.name = n /\ first.enabled = after[n].enabled
             /\ (th[t].pc = "done" /\ th[t].ret[1].ok) =>
                   LET second == th[t].ret[1].val[1]
                   IN /\ server = after
                      /\ second = [first EXCEPT !.toxics = <<>>]
                      /\ second.enabled = server[n].enabled

C12_Witness ==
    \E t \in clients :
       /\ th[t].pc = "done" /\ th[t].call.op = "find_and_reset_proxy"
       /\ th[t].call.arg # None /\ th[t].ret[1].ok
       /\ ~th[t].ret[1].val[1].enabled
       /\ th[t].call.arg[1].handle.toxics # <<>>

\* C13 as stated: all() called right after populate([cfg]) returns exactly
\* one entry, and its name is cfg.name.
C13_PopulateThenAllOneEntry ==
    \A t \in clients :
       (th[t].pc = "done" /\ th[t].call.op = "all"
            /\ th[t].call.arg # None /\ th[t].ret[1].ok) =>
          LET entries == th[t].ret[1].val[1]
              name == th[t].call.arg[1]
          IN DOMAIN entries = {name} /\ entries[name].name = name

\* C13 (amended): all() called right after populate([cfg]) returns one
\* entry for each proxy the server holds, each under its own name, the one
\* of cfg.name among them; that one is the only entry exactly when the
\* server holds no proxy of another name.
C13_PopulateThenAll ==
    \A t \in clients :
       (th[t].pc = "done" /\ th[t].call.op = "all"
            /\ th[t].call.arg # None /\ th[t].ret[1].ok) =>
          LET entries == th[t].ret[1].val[1]
              name == th[t].call.arg[1]
          IN /\ name \in DOMAIN entries
             /\ \A n \in DOMAIN entries : entries[n].name = n
             /\ DOMAIN entries = {n \in Names : server[n].exists}
             /\ DOMAIN entries = {name} <=>
                   \A n \in Names \ {name} : ~server[n].exists

C13_Witness ==
    \E t \in clients :
       /\ th[t].pc = "done" /\ th[t].call.op = "all"
       /\ th[t].call.arg = Some("socket") /\ th[t].ret[1].ok
       /\ DOMAIN th[t].ret[1].val[1] = {"socket"}
       /\ ~th[t].ret[1].val[1]["socket"].enabled

\* The requests a handle of pp and the lookup by name can make.
OperationsOn(pp) ==
    {enable(pp), disable(pp), delete(pp), toxics(pp), find_proxy(pp.name)}
       \cup {create_toxic(pp, x) : x \in inputs}
       \cup {delete_toxic(pp, x) : x \in inputs}

\* Thread t is answered in this step.
Answered(t) == t \in clients /\ th[t].pc = "inflight" /\ th'[t] # th[t]

\* The request thread t is answered in this step succeeds.
AnsweredOk(t) == Answered(t) /\ th'[t].log[Len(th[t].log) + 1].ok

DeletedIsGone ==
    \A t \in clients :
       (th[t].pc = "done" /\ th[t].call.op = "delete") =>
          (th[t].ret[1].ok =>
              /\ ~server[th[t].call.name].exists
              /\ \A rq \in OperationsOn(proxy[t][1]) :
                    LET reply == Serve(server, rq)
                    IN ~reply.ok /\ reply.srv = server)

\* One step of the server, seen from the proxy named n.
LifecycleStep(n) ==
    /\ (server[n].exists /\ ~server'[n].exists) =>
          \E t \in clients :
             AnsweredOk(t) /\ th[t].req[1].verb = "DELETE"
                /\ th[t].req[1].path = <<"proxies", n>>
    /\ (~server[n].exists /\ server'[n].exists) =>
          /\ \E t \in clients :
                AnsweredOk(t) /\ th[t].req[1].verb = "POST"
                   /\ th[t].req[1].path = <<"proxies">>
          /\ server'[n].enabled /\ server'[n].toxics = <<>>
    /\ (server[n].exists /\ server'[n].exists
           /\ server'[n].enabled # server[n].enabled) =>
          \E t \in clients :
             AnsweredOk(t)
                /\ th[t].req[1] = PostEnabled(n, server'[n].enabled)
    /\ ~server[n].exists =>
          \A t \in clients :
             (Answered(t) /\ Len(th[t].req[1].path) > 1) =>
                (th[t].req[1].path[2] = n =>
                    ~AnsweredOk(t) /\ server' = server)

MutationOps ==
    {"enable", "disable", "delete", "builder", "delete_all_toxics",
     "with_down", "apply"}

\* One step, seen from the handle of thread t: its ProxyPack changes only
\* when a populate, find_proxy or find_and_reset_proxy returns Ok, to the
\* pack that call returned.
HandleStep(t) ==
    /\ th'[t].call.op \in MutationOps => proxy'[t] = proxy[t]
    /\ proxy'[t] # proxy[t] =>
          /\ Answered(t) /\ th'[t].pc = "done"
          /\ th'[t].call.op \in {"populate", "find_proxy", "find_and_reset_proxy"}
          /\ th'[t].ret[1].ok
          /\ proxy'[t] # None /\ proxy'[t][1].name = th'[t].call.name

\* C15: no step of enable, disable, delete, a builder, delete_all_toxics,
\* with_down or apply changes the ProxyPack of the handle it is called on;
\* the pack changes only when the caller fetches a new one.
C15_HandleKept == [][\A t \in Threads : HandleStep(t)]_vars

C15_Witness ==
    \E t \in clients :
       /\ th[t].pc = "done" /\ th[t].call.op = "with_down"
       /\ ~th[t].ret[1].ok /\ Len(OwnAttempts(th[t].log)) > 1
       /\ proxy[t][1].enabled /\ ~server[th[t].call.name].enabled
       /\ proxy[t][1].toxics = <<>> /\ server[th[t].call.name].toxics # <<>>

\* C16 as stated: a lock() made by the closure of with_down or apply
\* always returns the guard.
C16_BodyAlwaysLocks ==
    \A t \in clients :
       th[t].call.op \in {"with_down", "apply"} =>
          \A i \in 1..Len(th[t].log) :
             th[t].log[i].ev = "lockfail" => th[t].log[i].own

\* The thread holds the guard only while a request is in flight: not in the
\* closure, not between two requests; a lock() it calls is never blocked,
\* and fails only on a poisoned mutex.
LockNotKept ==
    \A t \in clients :
       /\ th[t].pc # "inflight" => mutex.holder = 0
       /\ th[t].pc = "lock" => ENABLED Lock(t)
       /\ (\E i \in 1..Len(th[t].log) : th[t].log[i].ev = "lockfail") =>
             mutex.poisoned

\* A lock() on a mutex that is not poisoned returns the guard.
LockStep(t) ==
    (th[t].pc = "lock" /\ th'[t] # th[t] /\ ~mutex.poisoned) =>
       (th'[t].pc = "inflight" /\ mutex'.holder = t)

\* C16 (amended): the lock is not held while the closure of with_down or
\* apply runs nor between two requests of one operation; a lock() of the
\* closure is never blocked by its own thread: it returns the guard, or
\* an error when the mutex is poisoned; the closure and the call complete.
C16_NoSelfDeadlock ==
    /\ []LockNotKept
    /\ [][\A t \in Threads : LockStep(t)]_vars
    /\ \A t \in Threads :
          (t \in clients /\ th[t].pc \in {"closure", "lock", "inflight"})
             ~> (th[t].pc \in {"done", "panicked"})

C16_Witness ==
    \E t \in clients :
       /\ th[t].pc = "done" /\ th[t].call.op = "with_down" /\ th[t].ret[1].ok
       /\ \E i \in 1..Len(th[t].log) :
             /\ th[t].log[i].ev = "request" /\ ~th[t].log[i].own
             /\ th[t].log[i].rq[1].verb = "DELETE"

\* One answered request of a method called on the handle of thread t (not
\* of the closure it runs): it is on the handle's own proxy and leaves the
\* other proxies as they are; those of enable, disable and with_down leave
\* the toxics, those of delete_all_toxics and apply the enabled flag, that
\* of toxics everything.
FrameStep(t) ==
    (Answered(t) /\ th[t].call.op \in MutationOps \cup {"toxics"}
        /\ ~InClosure(th[t].stack)) =>
       LET rq == th[t].req[1]
           op == th[t].call.op
           n == proxy[t][1].name
       IN /\ Len(rq.path) \in {2, 3, 4}
          /\ rq.path[1] = "proxies" /\ rq.path[2] = n
          /\ Len(rq.path) > 2 => rq.path[3] = "toxics"
          /\ \A m \in Names \ {n} : server'[m] = server[m]
          /\ op \in {"enable", "disable", "with_down"} =>
                /\ server'[n].toxics = server[n].toxics
                /\ server'[n].exists = server[n].exists
          /\ op \in {"delete_all_toxics", "apply"} =>
                /\ server'[n].enabled = server[n].enabled
                /\ server'[n].exists = server[n].exists
          /\ op = "builder" => server'[n].enabled = server[n].enabled
          /\ op = "toxics" => server' = server

\* C17: every request a handle issues is on proxies/{name}.. of its own
\* proxy_pack.name and changes no other proxy; enable, disable and
\* with_down do not change the toxics of the proxy, delete_all_toxics and
\* apply do not change its enabled flag.
C17_Frame == [][\A t \in Threads : FrameStep(t)]_vars

C17_Witness ==
    \E t \in clients :
       /\ th[t].pc = "done" /\ th[t].call.op = "apply" /\ th[t].ret[1].ok
       /\ th[t].call.pre > 0 /\ ~server[th[t].call.name].enabled
       /\ \E m \in Names \ {th[t].call.name} : server[m].toxics # <<>>

====
